---- MODULE Spec2Model ----
(***************************************************************************)
(* Model of the MLC-LLM JNI bridge, Android/src/app/src/main/cpp/          *)
(* mlc_llm_jni.cpp: the process-wide session slot g_state (a               *)
(* std::unique_ptr<MlcLlmState>), the heap objects it owns, and the eight  *)
(* JNI entry points (nativeCheckVulkan, nativeCheckOpenCL, nativeInit,     *)
(* nativePrompt, nativeGenerate, nativeStopGeneration, nativeResetContext, *)
(* nativeRelease).                                                         *)
(*                                                                         *)
(* Spec      : one caller, every entry point runs to completion (one       *)
(*             action per JNI call).                                       *)
(* SpecConc  : two threads, every entry point runs one shared-memory       *)
(*             access at a time (one action per source line).              *)
(***************************************************************************)
EXTENDS Integers, Sequences, FiniteSets, TLC

\* ------------------------------------------------------------------ bounds

\* Number of heap addresses operator new can hand out for MlcLlmState objects.
NAddr == 2

\* ------------------------------------------------------- program constants

\* The null pointer / the jlong 0 / the null jstring.
nullptr == 0
JNI_TRUE == 1
JNI_FALSE == 0
\* nativePrompt's error result (line 211).
NotInitialized == -1
\* Result slot of a JNI function returning void.
VoidResult == 0

Addr == 1..NAddr

\* jlong values a caller can pass as `handle`: 0 or any address it was given.
Handles == {nullptr} \cup Addr

\* enum class Backend : CPU = 0, VULKAN_GPU = 1
\* enum class KvCacheType : F16 = 1, Q4_0 = 3
\* The argument tuples of nativeInit the caller draws from: the struct's own
\* defaults, and a configuration that differs from them in every field.
Configs ==
  { [backend |-> 0, gpuLayers |-> 0, contextSize |-> 4096, batchSize |-> 512,
     threads |-> 4, useFlashAttention |-> TRUE, kvCacheType |-> 1],
    [backend |-> 1, gpuLayers |-> 32, contextSize |-> 2048, batchSize |-> 256,
     threads |-> 8, useFlashAttention |-> FALSE, kvCacheType |-> 3] }

\* Model paths handed to nativeInit; only the first names a file that exists.
Paths == {"model.bin", "missing.bin"}
OpenablePaths == {"model.bin"}

\* Prompt texts handed to nativePrompt.
Prompts == {"", "Hi", "Hello world"}

\* struct MlcLlmState with its default member initialisers.
MlcLlmState ==
  [chatModule |-> nullptr,
   backend |-> 0, gpuLayers |-> 0, contextSize |-> 4096, batchSize |-> 512,
   threads |-> 4, useFlashAttention |-> TRUE, kvCacheType |-> 1,
   isGenerating |-> FALSE, shouldStop |-> FALSE,
   pendingToken |-> ""]

\* The configuration fields of a state object, as a record comparable to Configs.
ConfigOf(s) ==
  [backend |-> s.backend, gpuLayers |-> s.gpuLayers, contextSize |-> s.contextSize,
   batchSize |-> s.batchSize, threads |-> s.threads,
   useFlashAttention |-> s.useFlashAttention, kvCacheType |-> s.kvCacheType]

\* strlen(promptStr)
strlen(str) == Len(str)

VARIABLES
  g_state,     \* the unique_ptr's stored pointer: nullptr or an address
  heap,        \* heap[a]: contents of the MlcLlmState object at address a
  allocated,   \* addresses holding a constructed, not yet destroyed object
  doubleFree,  \* TRUE once delete ran on an address that held no live object
  dl,          \* number of library handles dlopen returned and dlclose has not closed
  stale,       \* handles whose session a later nativeInit destroyed
  lifecycle,   \* caller-side history: "Uninitialized", "Opened", "Released"
  last,        \* the JNI call that ran last, with its arguments and result
  prev,        \* the JNI call before that: its name and return path
  pc,          \* SpecConc: pc[t], the source line thread t is about to execute
  loc,         \* SpecConc: loc[t], the locals of thread t's call in progress
  stopDone,    \* SpecConc: a stop request has returned and no reset/open/release began since
  crashed,     \* SpecConc: a thread dereferenced a null g_state
  uaf          \* SpecConc: a thread read or wrote a destroyed state object

vars == <<g_state, heap, allocated, doubleFree, dl, stale, lifecycle, last, prev,
          pc, loc, stopDone, crashed, uaf>>

\* What the run-to-completion calls of Spec leave alone, and what the
\* line-by-line steps of SpecConc leave alone.
concVars == <<pc, loc, stopDone, crashed, uaf>>
seqVars == <<dl, stale, lifecycle, last, prev>>

\* The threads of the host application that call into the bridge.
Threads == {"caller", "stopper"}

\* Locals of a call: the entry point, nativeInit's configuration, the g_state
\* value the thread last loaded (p), the object make_unique built (newp), the
\* pointer reset() saved for deletion (old), whether the call counts as made
\* after a completed stop request (flag), and, once the call has returned
\* (pc[t] = "returned"), its result and the return statement it took (path).
Locals0 == [op |-> "none", cfg |-> ConfigOf(MlcLlmState), p |-> nullptr,
            newp |-> nullptr, old |-> nullptr, flag |-> FALSE,
            result |-> VoidResult, path |-> "none"]

session == <<g_state, heap, allocated, doubleFree>>

NoCall == [op |-> "none", ret |-> "none"]

Call(op, handle, path, cfg, prompt, result, line) ==
  [op |-> op, handle |-> handle, path |-> path, cfg |-> cfg, prompt |-> prompt,
   result |-> result, ret |-> line]

NoCfg == ConfigOf(MlcLlmState)

Record(c) ==
  /\ last' = c
  /\ prev' = [op |-> last.op, ret |-> last.ret]
  /\ UNCHANGED concVars

Init ==
  /\ g_state = nullptr
  /\ heap = [a \in Addr |-> MlcLlmState]
  /\ allocated = {}
  /\ doubleFree = FALSE
  /\ dl = 0
  /\ stale = {}
  /\ lifecycle = "Uninitialized"
  /\ last = Call("none", nullptr, "", NoCfg, "", VoidResult, "none")
  /\ prev = NoCall
  /\ pc = [t \in Threads |-> "idle"]
  /\ loc = [t \in Threads |-> Locals0]
  /\ stopDone = FALSE
  /\ crashed = FALSE
  /\ uaf = FALSE

\* ------------------------------------------------------------ heap helpers

\* ~MlcLlmState followed by operator delete on address a (a /= nullptr):
\* the object is gone; destroying an address that holds no object is a double free.
DeleteHeap(h, a) == [h EXCEPT ![a] = MlcLlmState]
DeleteAllocated(al, a) == al \ {a}
DeleteIsDouble(al, a) == a \notin al

\* ---------------------------------------------------------------- probers

\* dlopen / dlclose on the loader's handle count.
dlopen(n) == n + 1
dlclose(n) == n - 1

\* nativeCheckVulkan: dlopen("libvulkan.so") succeeds (ok) or not.
nativeCheckVulkan(ok) ==
  /\ dl' = IF ok THEN dlclose(dlopen(dl)) ELSE dl
  /\ Record(Call("nativeCheckVulkan", nullptr, "", NoCfg, "",
                 IF ok THEN JNI_TRUE ELSE JNI_FALSE, IF ok THEN "L113" ELSE "L116"))
  /\ UNCHANGED <<g_state, heap, allocated, doubleFree, stale, lifecycle>>

\* Variant of nativeCheckOpenCL whose vendor path returns without dlclose.
nativeCheckOpenCL_leakVendor(okSystem, okVendor) ==
  /\ dl' = IF okSystem THEN dlclose(dlopen(dl))
           ELSE IF okVendor THEN dlopen(dl)
           ELSE dl
  /\ Record(Call("nativeCheckOpenCL", nullptr, "", NoCfg, "",
                 IF okSystem \/ okVendor THEN JNI_TRUE ELSE JNI_FALSE,
                 IF okSystem THEN "L132" ELSE IF okVendor THEN "L140" ELSE "L144"))
  /\ UNCHANGED <<g_state, heap, allocated, doubleFree, stale, lifecycle>>

\* nativeCheckOpenCL: the system path first, then the vendor path.
nativeCheckOpenCL(okSystem, okVendor) ==
  /\ dl' = IF okSystem THEN dlclose(dlopen(dl))
           ELSE IF okVendor THEN dlclose(dlopen(dl))
           ELSE dl
  /\ Record(Call("nativeCheckOpenCL", nullptr, "", NoCfg, "",
                 IF okSystem \/ okVendor THEN JNI_TRUE ELSE JNI_FALSE,
                 IF okSystem THEN "L132" ELSE IF okVendor THEN "L140" ELSE "L144"))
  /\ UNCHANGED <<g_state, heap, allocated, doubleFree, stale, lifecycle>>

\* ---------------------------------------------------------- session calls

\* Variant of nativeInit that gives up the old state object without destroying
\* it (g_state.release(); g_state = make_unique...).
nativeInit_leak(path, cfg, a) ==
  /\ a \in Addr \ allocated
  /\ g_state' = a
  /\ heap' = [heap EXCEPT ![a] = [MlcLlmState EXCEPT
                     !.backend = cfg.backend,
                     !.gpuLayers = cfg.gpuLayers,
                     !.contextSize = cfg.contextSize,
                     !.batchSize = cfg.batchSize,
                     !.threads = cfg.threads,
                     !.useFlashAttention = cfg.useFlashAttention,
                     !.kvCacheType = cfg.kvCacheType] ]
  /\ allocated' = allocated \cup {a}
  /\ lifecycle' = "Opened"
  /\ Record(Call("nativeInit", nullptr, path, cfg, "", a, "L196"))
  /\ UNCHANGED <<doubleFree, dl, stale>>

\* Variant of nativeInit that leaves kvCacheType at its default (line 176
\* missing).
nativeInit_dropsKv(path, cfg, a) ==
  /\ a \in Addr \ allocated
  /\ g_state' = a
  /\ heap' = [ (IF g_state = nullptr THEN heap ELSE DeleteHeap(heap, g_state))
               EXCEPT ![a] = [MlcLlmState EXCEPT
                     !.backend = cfg.backend,
                     !.gpuLayers = cfg.gpuLayers,
                     !.contextSize = cfg.contextSize,
                     !.batchSize = cfg.batchSize,
                     !.threads = cfg.threads,
                     !.useFlashAttention = cfg.useFlashAttention] ]
  /\ allocated' = (IF g_state = nullptr THEN allocated
                   ELSE DeleteAllocated(allocated, g_state)) \cup {a}
  /\ doubleFree' = (doubleFree \/
                    (g_state /= nullptr /\ DeleteIsDouble(allocated, g_state)))
  /\ stale' = (stale \cup (IF g_state = nullptr THEN {} ELSE {g_state})) \ {a}
  /\ lifecycle' = "Opened"
  /\ Record(Call("nativeInit", nullptr, path, cfg, "", a, "L196"))
  /\ UNCHANGED dl

\* Variant of nativeInit that keeps an existing state object and only rewrites
\* its configuration (if (!g_state) g_state = make_unique...).
nativeInit_reuse(path, cfg, a) ==
  /\ a \in Addr \ allocated
  /\ LET b == IF g_state = nullptr THEN a ELSE g_state
         old == IF g_state = nullptr THEN MlcLlmState ELSE heap[g_state]
     IN /\ g_state' = b
        /\ heap' = [heap EXCEPT ![b] = [old EXCEPT
                     !.backend = cfg.backend,
                     !.gpuLayers = cfg.gpuLayers,
                     !.contextSize = cfg.contextSize,
                     !.batchSize = cfg.batchSize,
                     !.threads = cfg.threads,
                     !.useFlashAttention = cfg.useFlashAttention,
                     !.kvCacheType = cfg.kvCacheType] ]
        /\ allocated' = allocated \cup {b}
        /\ Record(Call("nativeInit", nullptr, path, cfg, "", b, "L196"))
  /\ lifecycle' = "Opened"
  /\ UNCHANGED <<doubleFree, dl, stale>>

\* nativeInit: g_state = std::make_unique<MlcLlmState>() builds the new object
\* at a fresh address a while the old one is still alive, stores it in the slot
\* and destroys the old object; then the seven configuration fields are
\* assigned; the new address is returned as the handle.  The model path is only
\* logged.
nativeInit(path, cfg, a) ==
  /\ a \in Addr \ allocated
  /\ g_state' = a
  /\ heap' = [ (IF g_state = nullptr THEN heap ELSE DeleteHeap(heap, g_state))
               EXCEPT ![a] = [MlcLlmState EXCEPT
                     !.backend = cfg.backend,
                     !.gpuLayers = cfg.gpuLayers,
                     !.contextSize = cfg.contextSize,
                     !.batchSize = cfg.batchSize,
                     !.threads = cfg.threads,
                     !.useFlashAttention = cfg.useFlashAttention,
                     !.kvCacheType = cfg.kvCacheType] ]
  /\ allocated' = (IF g_state = nullptr THEN allocated
                   ELSE DeleteAllocated(allocated, g_state)) \cup {a}
  /\ doubleFree' = (doubleFree \/
                    (g_state /= nullptr /\ DeleteIsDouble(allocated, g_state)))
  /\ stale' = (stale \cup (IF g_state = nullptr THEN {} ELSE {g_state})) \ {a}
  /\ lifecycle' = "Opened"
  /\ Record(Call("nativeInit", nullptr, path, cfg, "", a, "L196"))
  /\ UNCHANGED dl

\* Variant of nativePrompt that counts one extra begin-of-sequence token.
nativePrompt_plusBos(handle, prompt) ==
  /\ IF g_state = nullptr
       THEN Record(Call("nativePrompt", handle, "", NoCfg, prompt,
                        NotInitialized, "L211"))
       ELSE Record(Call("nativePrompt", handle, "", NoCfg, prompt,
                        strlen(prompt) \div 4 + 1, "L231"))
  /\ UNCHANGED <<g_state, heap, allocated, doubleFree, dl, stale, lifecycle>>

\* Variant of nativePrompt that starts a new turn by clearing shouldStop.
nativePrompt_clearsStop(handle, prompt) ==
  /\ IF g_state = nullptr
       THEN /\ heap' = heap
            /\ Record(Call("nativePrompt", handle, "", NoCfg, prompt,
                           NotInitialized, "L211"))
       ELSE /\ heap' = [heap EXCEPT ![g_state].shouldStop = FALSE]
            /\ Record(Call("nativePrompt", handle, "", NoCfg, prompt,
                           strlen(prompt) \div 4, "L231"))
  /\ UNCHANGED <<g_state, allocated, doubleFree, dl, stale, lifecycle>>

\* Variant of nativePrompt without the g_state check.
nativePrompt_unguarded(handle, prompt) ==
  /\ Record(Call("nativePrompt", handle, "", NoCfg, prompt,
                 strlen(prompt) \div 4, "L231"))
  /\ UNCHANGED <<g_state, heap, allocated, doubleFree, dl, stale, lifecycle>>

\* nativePrompt: -1 without a session, else strlen(prompt) / 4.
nativePrompt(handle, prompt) ==
  /\ IF g_state = nullptr
       THEN Record(Call("nativePrompt", handle, "", NoCfg, prompt,
                        NotInitialized, "L211"))
       ELSE Record(Call("nativePrompt", handle, "", NoCfg, prompt,
                        strlen(prompt) \div 4, "L231"))
  /\ UNCHANGED <<g_state, heap, allocated, doubleFree, dl, stale, lifecycle>>

\* Variant of nativeGenerate without the shouldStop check of line 254.
nativeGenerate_ignoresStop(handle) ==
  /\ IF g_state = nullptr
       THEN /\ Record(Call("nativeGenerate", handle, "", NoCfg, "", nullptr, "L251"))
            /\ heap' = heap
       ELSE /\ Record(Call("nativeGenerate", handle, "", NoCfg, "", nullptr, "L285"))
            /\ heap' = [ [heap EXCEPT ![g_state].isGenerating = TRUE]
                         EXCEPT ![g_state].isGenerating = FALSE ]
  /\ UNCHANGED <<g_state, allocated, doubleFree, dl, stale, lifecycle>>

\* Variant of nativeGenerate that consumes the stop request when it observes it.
nativeGenerate_consumesStop(handle) ==
  /\ IF g_state = nullptr
       THEN /\ Record(Call("nativeGenerate", handle, "", NoCfg, "", nullptr, "L251"))
            /\ heap' = heap
       ELSE IF heap[g_state].shouldStop
         THEN /\ Record(Call("nativeGenerate", handle, "", NoCfg, "", nullptr, "L256"))
              /\ heap' = [heap EXCEPT ![g_state].shouldStop = FALSE]
         ELSE /\ Record(Call("nativeGenerate", handle, "", NoCfg, "", nullptr, "L285"))
              /\ heap' = [ [heap EXCEPT ![g_state].isGenerating = TRUE]
                           EXCEPT ![g_state].isGenerating = FALSE ]
  /\ UNCHANGED <<g_state, allocated, doubleFree, dl, stale, lifecycle>>

\* nativeGenerate: null without a session (line 251), null when shouldStop is
\* set (line 256); otherwise isGenerating is set (line 259), cleared again
\* (line 284) and null is returned (line 285).
nativeGenerate(handle) ==
  /\ IF g_state = nullptr
       THEN /\ Record(Call("nativeGenerate", handle, "", NoCfg, "", nullptr, "L251"))
            /\ heap' = heap
       ELSE IF heap[g_state].shouldStop
         THEN /\ Record(Call("nativeGenerate", handle, "", NoCfg, "", nullptr, "L256"))
              /\ heap' = heap
         ELSE /\ Record(Call("nativeGenerate", handle, "", NoCfg, "", nullptr, "L285"))
              /\ heap' = [ [heap EXCEPT ![g_state].isGenerating = TRUE]
                           EXCEPT ![g_state].isGenerating = FALSE ]
  /\ UNCHANGED <<g_state, allocated, doubleFree, dl, stale, lifecycle>>

\* Variant of nativeStopGeneration that toggles the flag
\* (shouldStop = !shouldStop).
nativeStopGeneration_toggle(handle) ==
  /\ IF g_state /= nullptr
       THEN /\ heap' = [heap EXCEPT ![g_state].shouldStop = ~heap[g_state].shouldStop]
            /\ Record(Call("nativeStopGeneration", handle, "", NoCfg, "",
                           VoidResult, "L298"))
       ELSE /\ heap' = heap
            /\ Record(Call("nativeStopGeneration", handle, "", NoCfg, "",
                           VoidResult, "L301"))
  /\ UNCHANGED <<g_state, allocated, doubleFree, dl, stale, lifecycle>>

\* nativeStopGeneration: sets shouldStop on the session in the slot, if any.
nativeStopGeneration(handle) ==
  /\ IF g_state /= nullptr
       THEN /\ heap' = [heap EXCEPT ![g_state].shouldStop = TRUE]
            /\ Record(Call("nativeStopGeneration", handle, "", NoCfg, "",
                           VoidResult, "L298"))
       ELSE /\ heap' = heap
            /\ Record(Call("nativeStopGeneration", handle, "", NoCfg, "",
                           VoidResult, "L301"))
  /\ UNCHANGED <<g_state, allocated, doubleFree, dl, stale, lifecycle>>

\* Variant of nativeResetContext that resets the cache only and leaves
\* shouldStop as it is.
nativeResetContext_keepsStop(handle) ==
  /\ heap' = heap
  /\ Record(Call("nativeResetContext", handle, "", NoCfg, "", VoidResult,
                 IF g_state /= nullptr THEN "L318" ELSE "L321"))
  /\ UNCHANGED <<g_state, allocated, doubleFree, dl, stale, lifecycle>>

\* nativeResetContext: clears shouldStop on the session in the slot, if any.
nativeResetContext(handle) ==
  /\ IF g_state /= nullptr
       THEN /\ heap' = [heap EXCEPT ![g_state].shouldStop = FALSE]
            /\ Record(Call("nativeResetContext", handle, "", NoCfg, "",
                           VoidResult, "L318"))
       ELSE /\ heap' = heap
            /\ Record(Call("nativeResetContext", handle, "", NoCfg, "",
                           VoidResult, "L321"))
  /\ UNCHANGED <<g_state, allocated, doubleFree, dl, stale, lifecycle>>

\* Variant of nativeRelease that destroys the object but leaves the slot
\* pointing at it (delete g_state.get() instead of g_state.reset()).
nativeRelease_dangling(handle) ==
  /\ IF g_state /= nullptr
       THEN /\ heap' = DeleteHeap(heap, g_state)
            /\ allocated' = DeleteAllocated(allocated, g_state)
            /\ doubleFree' = (doubleFree \/ DeleteIsDouble(allocated, g_state))
            /\ Record(Call("nativeRelease", handle, "", NoCfg, "",
                           VoidResult, "L333"))
       ELSE /\ UNCHANGED <<heap, allocated, doubleFree>>
            /\ Record(Call("nativeRelease", handle, "", NoCfg, "",
                           VoidResult, "L336"))
  /\ lifecycle' = "Released"
  /\ UNCHANGED <<g_state, dl, stale>>

\* Variant of nativeRelease that only logs and keeps the session in the slot.
nativeRelease_keepsSlot(handle) ==
  /\ Record(Call("nativeRelease", handle, "", NoCfg, "", VoidResult,
                 IF g_state /= nullptr THEN "L333" ELSE "L336"))
  /\ lifecycle' = "Released"
  /\ UNCHANGED <<g_state, heap, allocated, doubleFree, dl, stale>>

\* nativeRelease: g_state.reset() when the slot is occupied: the slot becomes
\* null and the object it held is destroyed.
nativeRelease(handle) ==
  /\ IF g_state /= nullptr
       THEN /\ g_state' = nullptr
            /\ heap' = DeleteHeap(heap, g_state)
            /\ allocated' = DeleteAllocated(allocated, g_state)
            /\ doubleFree' = (doubleFree \/ DeleteIsDouble(allocated, g_state))
            /\ Record(Call("nativeRelease", handle, "", NoCfg, "",
                           VoidResult, "L333"))
       ELSE /\ UNCHANGED <<g_state, heap, allocated, doubleFree>>
            /\ Record(Call("nativeRelease", handle, "", NoCfg, "",
                           VoidResult, "L336"))
  /\ lifecycle' = "Released"
  /\ UNCHANGED <<dl, stale>>

\* ------------------------------------------------------------ specification

Next ==
  \/ \E ok \in BOOLEAN : nativeCheckVulkan(ok)
  \/ \E okSystem \in BOOLEAN, okVendor \in BOOLEAN : nativeCheckOpenCL(okSystem, okVendor)
  \/ \E path \in Paths, cfg \in Configs, a \in Addr : nativeInit(path, cfg, a)
  \/ \E handle \in Handles, prompt \in Prompts : nativePrompt(handle, prompt)
  \/ \E handle \in Handles : nativeGenerate(handle)
  \/ \E handle \in Handles : nativeStopGeneration(handle)
  \/ \E handle \in Handles : nativeResetContext(handle)
  \/ \E handle \in Handles : nativeRelease(handle)

Spec == Init /\ [][Next]_vars

\* ------------------------------------------------- line-by-line, two threads

\* The entry points that replace, reset or destroy the session.
Mutators == {"nativeInit", "nativeResetContext", "nativeRelease"}

\* The pointer an access `g_state->...` can go through: g_state is a plain
\* global, so the build may reuse the value the thread loaded before (loc[t].p)
\* or load g_state again.
Ptr(t) == {loc[t].p, g_state}

\* Undefined behaviour has happened: a null dereference, an access to a
\* destroyed object or a second delete of the same object.  What the process
\* does from there on is not defined, so no step is taken from such a state.
Faulted == crashed \/ uaf \/ doubleFree

Running(t) == ~Faulted /\ pc[t] \notin {"idle", "returned"}

\* Thread t enters entry point op.  A call that replaces, resets or destroys
\* the session ends the period "a stop request has returned and nothing
\* happened since", also for the calls in progress.
Enter(t, op, cfg, first) ==
  /\ ~Faulted
  /\ pc[t] = "idle"
  /\ pc' = [pc EXCEPT ![t] = first]
  /\ IF op \in Mutators
       THEN /\ stopDone' = FALSE
            /\ loc' = [u \in Threads |->
                         IF u = t THEN [Locals0 EXCEPT !.op = op, !.cfg = cfg]
                         ELSE [loc[u] EXCEPT !.flag = FALSE]]
       ELSE /\ stopDone' = stopDone
            /\ loc' = [loc EXCEPT ![t] = [Locals0 EXCEPT
                         !.op = op,
                         !.flag = IF op = "nativeGenerate" THEN stopDone
                                  ELSE \A u \in Threads : loc[u].op \notin Mutators]]
  /\ UNCHANGED <<g_state, heap, allocated, doubleFree, crashed, uaf>>
  /\ UNCHANGED seqVars

\* Thread t returns result from the return statement `path`: the caller holds
\* the result until it goes on (Resume).
Return(t, result, path) ==
  /\ pc' = [pc EXCEPT ![t] = "returned"]
  /\ loc' = [loc EXCEPT ![t] = [Locals0 EXCEPT !.op = loc[t].op, !.flag = loc[t].flag,
                                               !.result = result, !.path = path]]

\* The caller on thread t has consumed the result of its call.
Resume(t) ==
  /\ ~Faulted
  /\ pc[t] = "returned"
  /\ pc' = [pc EXCEPT ![t] = "idle"]
  /\ loc' = [loc EXCEPT ![t] = Locals0]
  /\ UNCHANGED <<g_state, heap, allocated, doubleFree, stopDone, crashed, uaf>>
  /\ UNCHANGED seqVars

\* Thread t moves on to line `next`, remembering the pointer it loaded.
Goto(t, next, p) ==
  /\ pc' = [pc EXCEPT ![t] = next]
  /\ loc' = [loc EXCEPT ![t].p = p]

\* A null dereference.
Crash ==
  /\ crashed' = TRUE
  /\ UNCHANGED <<g_state, heap, allocated, doubleFree, pc, loc, stopDone, uaf>>

\* p->field = value through a non-null p; a store into a destroyed object is
\* recorded and has no effect on any live object.
Store(p, field, value) ==
  /\ uaf' = (uaf \/ p \notin allocated)
  /\ heap' = IF p \in allocated THEN [heap EXCEPT ![p][field] = value] ELSE heap
  /\ UNCHANGED <<g_state, allocated, doubleFree, crashed>>

\* delete old, as unique_ptr's reset() does after the slot was overwritten.
Delete(old) ==
  IF old = nullptr
    THEN UNCHANGED <<heap, allocated, doubleFree>>
    ELSE /\ heap' = DeleteHeap(heap, old)
         /\ allocated' = DeleteAllocated(allocated, old)
         /\ doubleFree' = (doubleFree \/ DeleteIsDouble(allocated, old))

\* ---- nativeGenerate, lines 249-285

callGenerate(t) == Enter(t, "nativeGenerate", NoCfg, "L249")

\* line 249: if (!g_state) return nullptr;
gen249(t) ==
  /\ Running(t) /\ pc[t] = "L249"
  /\ IF g_state = nullptr THEN Return(t, nullptr, "L251") ELSE Goto(t, "L254", g_state)
  /\ UNCHANGED <<g_state, heap, allocated, doubleFree, stopDone, crashed, uaf>>
  /\ UNCHANGED seqVars

\* line 254: if (g_state->shouldStop) return nullptr;  A read of a destroyed
\* object can yield either value.
gen254(t) ==
  /\ Running(t) /\ pc[t] = "L254"
  /\ \E p \in Ptr(t) :
       IF p = nullptr THEN Crash
       ELSE \E b \in (IF p \in allocated THEN {heap[p].shouldStop} ELSE BOOLEAN) :
              /\ IF b THEN Return(t, nullptr, "L256") ELSE Goto(t, "L259", p)
              /\ uaf' = (uaf \/ p \notin allocated)
              /\ UNCHANGED <<g_state, heap, allocated, doubleFree, stopDone, crashed>>
  /\ UNCHANGED seqVars

\* line 259: g_state->isGenerating = true;
gen259(t) ==
  /\ Running(t) /\ pc[t] = "L259"
  /\ \E p \in Ptr(t) :
       IF p = nullptr THEN Crash
       ELSE /\ Store(p, "isGenerating", TRUE)
            /\ Goto(t, "L284", p)
            /\ stopDone' = stopDone
  /\ UNCHANGED seqVars

\* Variant of lines 284-285 that returns without clearing isGenerating.
gen284_noClear(t) ==
  /\ Running(t) /\ pc[t] = "L284"
  /\ Return(t, nullptr, "L285")
  /\ UNCHANGED <<g_state, heap, allocated, doubleFree, stopDone, crashed, uaf>>
  /\ UNCHANGED seqVars

\* lines 284-285: g_state->isGenerating = false; return nullptr;
gen284(t) ==
  /\ Running(t) /\ pc[t] = "L284"
  /\ \E p \in Ptr(t) :
       IF p = nullptr THEN Crash
       ELSE /\ Store(p, "isGenerating", FALSE)
            /\ Return(t, nullptr, "L285")
            /\ stopDone' = stopDone
  /\ UNCHANGED seqVars

\* ---- nativeStopGeneration, lines 297-301

callStopGeneration(t) == Enter(t, "nativeStopGeneration", NoCfg, "L297")

\* line 297: if (g_state) ...
stop297(t) ==
  /\ Running(t) /\ pc[t] = "L297"
  /\ IF g_state = nullptr THEN Return(t, VoidResult, "L301") ELSE Goto(t, "L298", g_state)
  /\ UNCHANGED <<g_state, heap, allocated, doubleFree, stopDone, crashed, uaf>>
  /\ UNCHANGED seqVars

\* Variant of line 298 that clears isGenerating and leaves shouldStop alone.
stop298_wrongFlag(t) ==
  /\ Running(t) /\ pc[t] = "L298"
  /\ \E p \in Ptr(t) :
       IF p = nullptr THEN Crash
       ELSE /\ Store(p, "isGenerating", FALSE)
            /\ Goto(t, "L299", p)
            /\ stopDone' = stopDone
  /\ UNCHANGED seqVars

\* line 298: g_state->shouldStop = true;
stop298(t) ==
  /\ Running(t) /\ pc[t] = "L298"
  /\ \E p \in Ptr(t) :
       IF p = nullptr THEN Crash
       ELSE /\ Store(p, "shouldStop", TRUE)
            /\ Goto(t, "L299", p)
            /\ stopDone' = stopDone
  /\ UNCHANGED seqVars

\* lines 299-301: log and return.  The stop request is complete; it counts for
\* the calls that start from now on if no reset, open or release ran beside it.
stop299(t) ==
  /\ Running(t) /\ pc[t] = "L299"
  /\ stopDone' = (stopDone \/ loc[t].flag)
  /\ Return(t, VoidResult, "L298")
  /\ UNCHANGED <<g_state, heap, allocated, doubleFree, crashed, uaf>>
  /\ UNCHANGED seqVars

\* ---- nativeResetContext, lines 312-321

callResetContext(t) == Enter(t, "nativeResetContext", NoCfg, "L312")

\* line 312: if (g_state) ...
reset312(t) ==
  /\ Running(t) /\ pc[t] = "L312"
  /\ IF g_state = nullptr THEN Return(t, VoidResult, "L321") ELSE Goto(t, "L318", g_state)
  /\ UNCHANGED <<g_state, heap, allocated, doubleFree, stopDone, crashed, uaf>>
  /\ UNCHANGED seqVars

\* lines 318-321: g_state->shouldStop = false; log and return.
reset318(t) ==
  /\ Running(t) /\ pc[t] = "L318"
  /\ \E p \in Ptr(t) :
       IF p = nullptr THEN Crash
       ELSE /\ Store(p, "shouldStop", FALSE)
            /\ Return(t, VoidResult, "L318")
            /\ stopDone' = stopDone
  /\ UNCHANGED seqVars

\* ---- nativeRelease, lines 332-336

callRelease(t) == Enter(t, "nativeRelease", NoCfg, "L332")

\* line 332: if (g_state) ...
release332(t) ==
  /\ Running(t) /\ pc[t] = "L332"
  /\ IF g_state = nullptr THEN Return(t, VoidResult, "L336") ELSE Goto(t, "L333", g_state)
  /\ UNCHANGED <<g_state, heap, allocated, doubleFree, stopDone, crashed, uaf>>
  /\ UNCHANGED seqVars

\* line 333, g_state.reset(): old = the stored pointer;
release333(t) ==
  /\ Running(t) /\ pc[t] = "L333"
  /\ pc' = [pc EXCEPT ![t] = "L333store"]
  /\ loc' = [loc EXCEPT ![t].old = g_state]
  /\ UNCHANGED <<g_state, heap, allocated, doubleFree, stopDone, crashed, uaf>>
  /\ UNCHANGED seqVars

\* ... the stored pointer = nullptr;
release333store(t) ==
  /\ Running(t) /\ pc[t] = "L333store"
  /\ g_state' = nullptr
  /\ pc' = [pc EXCEPT ![t] = "L333delete"]
  /\ UNCHANGED <<heap, allocated, doubleFree, loc, stopDone, crashed, uaf>>
  /\ UNCHANGED seqVars

\* ... if (old) delete old;  then log and return.
release333delete(t) ==
  /\ Running(t) /\ pc[t] = "L333delete"
  /\ Delete(loc[t].old)
  /\ Return(t, VoidResult, "L333")
  /\ UNCHANGED <<g_state, stopDone, crashed, uaf>>
  /\ UNCHANGED seqVars

\* ---- nativePrompt, lines 209-231

callPrompt(t) == Enter(t, "nativePrompt", NoCfg, "L209")

\* line 209 is the call's only access to shared state; the count is computed
\* from the caller's string.
prompt209(t, prompt) ==
  /\ Running(t) /\ pc[t] = "L209"
  /\ IF g_state = nullptr THEN Return(t, NotInitialized, "L211")
     ELSE Return(t, strlen(prompt) \div 4, "L231")
  /\ UNCHANGED <<g_state, heap, allocated, doubleFree, stopDone, crashed, uaf>>
  /\ UNCHANGED seqVars

\* ---- nativeInit, lines 169-196

\* The configurations the threads open with: the one that differs from the
\* struct's defaults in every field (no entry point branches on a
\* configuration value).
ConcConfigs == {cfg \in Configs : cfg.backend /= MlcLlmState.backend}

callInit(t, cfg) == Enter(t, "nativeInit", cfg, "L169")

\* line 169, std::make_unique<MlcLlmState>(): a new object at a free address.
init169(t, a) ==
  /\ Running(t) /\ pc[t] = "L169"
  /\ a \in Addr \ allocated
  /\ allocated' = allocated \cup {a}
  /\ heap' = [heap EXCEPT ![a] = MlcLlmState]
  /\ pc' = [pc EXCEPT ![t] = "L169load"]
  /\ loc' = [loc EXCEPT ![t].newp = a]
  /\ UNCHANGED <<g_state, doubleFree, stopDone, crashed, uaf>>
  /\ UNCHANGED seqVars

\* line 169, the move assignment's reset(): old = the stored pointer;
init169load(t) ==
  /\ Running(t) /\ pc[t] = "L169load"
  /\ pc' = [pc EXCEPT ![t] = "L169store"]
  /\ loc' = [loc EXCEPT ![t].old = g_state]
  /\ UNCHANGED <<g_state, heap, allocated, doubleFree, stopDone, crashed, uaf>>
  /\ UNCHANGED seqVars

\* ... the stored pointer = the new object;
init169store(t) ==
  /\ Running(t) /\ pc[t] = "L169store"
  /\ g_state' = loc[t].newp
  /\ pc' = [pc EXCEPT ![t] = "L169delete"]
  /\ loc' = [loc EXCEPT ![t].p = loc[t].newp]
  /\ UNCHANGED <<heap, allocated, doubleFree, stopDone, crashed, uaf>>
  /\ UNCHANGED seqVars

\* ... if (old) delete old;
init169delete(t) ==
  /\ Running(t) /\ pc[t] = "L169delete"
  /\ Delete(loc[t].old)
  /\ pc' = [pc EXCEPT ![t] = "L170"]
  /\ UNCHANGED <<g_state, loc, stopDone, crashed, uaf>>
  /\ UNCHANGED seqVars

\* lines 170-176: the seven assignments g_state->field = argument.  They are
\* taken as one step through one pointer: no other entry point reads the
\* configuration fields.
InitFields == {"backend", "gpuLayers", "contextSize", "batchSize", "threads",
               "useFlashAttention", "kvCacheType"}

init170(t) ==
  /\ Running(t) /\ pc[t] = "L170"
  /\ \E p \in Ptr(t) :
       IF p = nullptr THEN Crash
       ELSE /\ uaf' = (uaf \/ p \notin allocated)
            /\ heap' = IF p \in allocated
                         THEN [heap EXCEPT ![p] =
                                 [f \in DOMAIN heap[p] |->
                                    IF f \in InitFields THEN loc[t].cfg[f]
                                    ELSE heap[p][f]]]
                         ELSE heap
            /\ Goto(t, "L196", p)
            /\ UNCHANGED <<g_state, allocated, doubleFree, crashed, stopDone>>
  /\ UNCHANGED seqVars

\* line 196: return reinterpret_cast<jlong>(g_state.get());  g_state is loaded
\* again after the JNI call of line 193.
init196(t) ==
  /\ Running(t) /\ pc[t] = "L196"
  /\ Return(t, g_state, "L196")
  /\ UNCHANGED <<g_state, heap, allocated, doubleFree, stopDone, crashed, uaf>>
  /\ UNCHANGED seqVars

NextConc ==
  \E t \in Threads :
    \/ callGenerate(t) \/ gen249(t) \/ gen254(t) \/ gen259(t) \/ gen284(t)
    \/ callStopGeneration(t) \/ stop297(t) \/ stop298(t) \/ stop299(t)
    \/ callResetContext(t) \/ reset312(t) \/ reset318(t)
    \/ callRelease(t) \/ release332(t) \/ release333(t) \/ release333store(t)
    \/ release333delete(t)
    \/ callPrompt(t) \/ (\E prompt \in Prompts : prompt209(t, prompt))
    \/ (\E cfg \in ConcConfigs : callInit(t, cfg))
    \/ (\E a \in Addr : init169(t, a))
    \/ init169load(t) \/ init169store(t) \/ init169delete(t)
    \/ init170(t)
    \/ init196(t)
    \/ Resume(t)

SpecConc == Init /\ [][NextConc]_vars

\* The threading the callers are meant to use: one thread ("caller") drives the
\* session through any of the entry points, line by line, while a second thread
\* ("stopper") only calls nativeStopGeneration.
NextWriter ==
  \/ callGenerate("caller") \/ gen249("caller") \/ gen254("caller")
  \/ gen259("caller") \/ gen284("caller")
  \/ callStopGeneration("caller") \/ stop297("caller") \/ stop298("caller")
  \/ stop299("caller")
  \/ callResetContext("caller") \/ reset312("caller") \/ reset318("caller")
  \/ callRelease("caller") \/ release332("caller") \/ release333("caller")
  \/ release333store("caller") \/ release333delete("caller")
  \/ callPrompt("caller") \/ (\E prompt \in Prompts : prompt209("caller", prompt))
  \/ (\E cfg \in ConcConfigs : callInit("caller", cfg))
  \/ (\E a \in Addr : init169("caller", a))
  \/ init169load("caller") \/ init169store("caller") \/ init169delete("caller")
  \/ init170("caller")
  \/ init196("caller")
  \/ Resume("caller")
  \/ callStopGeneration("stopper") \/ stop297("stopper") \/ stop298("stopper")
  \/ stop299("stopper") \/ Resume("stopper")

SpecWriter == Init /\ [][NextWriter]_vars

\* ------------------------------------------------------------------ phase

\* The session's phase as the caller sees it: the calls made so far decide
\* between Uninitialized, opened and Released; for an opened session the two
\* flags of the state object decide between Generating, Stopped and Ready.
Phase ==
  IF lifecycle /= "Opened" THEN lifecycle
  ELSE IF g_state /= nullptr /\ heap[g_state].isGenerating THEN "Generating"
  ELSE IF g_state /= nullptr /\ heap[g_state].shouldStop THEN "Stopped"
  ELSE "Ready"

\* The operations that take a session handle.
HandleOps == {"nativePrompt", "nativeGenerate", "nativeStopGeneration",
              "nativeResetContext", "nativeRelease"}

\* ----------------------------------------------------------------- claims

\* C1: release is idempotent: a release call that directly follows a release
\* call changes neither the slot nor any session object nor the set of live
\* objects, and destroys nothing a second time.
C1_ReleaseIdempotent ==
  [][ (last.op = "nativeRelease" /\ last'.op = "nativeRelease")
        => (UNCHANGED session /\ last'.ret = "L336" /\ ~doubleFree') ]_vars

\* C1 witness: a release that freed a session, directly followed by a second
\* release that found the slot empty.
C1_Witness ==
  /\ last.op = "nativeRelease" /\ last.ret = "L336"
  /\ prev.op = "nativeRelease" /\ prev.ret = "L333"
  /\ g_state = nullptr /\ allocated = {}

\* C2: a generate call made without a session, or with shouldStop set, returns
\* the null sentinel from one of the two early returns and changes no state.
C2_GenerateRefusedNoEffect ==
  [][ (last'.op = "nativeGenerate"
       /\ (g_state = nullptr \/ heap[g_state].shouldStop))
        => (/\ last'.result = nullptr
            /\ last'.ret \in {"L251", "L256"}
            /\ UNCHANGED <<session, dl, stale>>) ]_vars

\* C2 witness: a generate call on an open session with shouldStop set has
\* returned.
C2_Witness ==
  /\ last.op = "nativeGenerate" /\ last.ret = "L256" /\ last.result = nullptr
  /\ g_state /= nullptr /\ heap[g_state].shouldStop

\* C3 as stated: once shouldStop is set, every call other than resetContext and
\* release leaves a session in the slot with shouldStop still set.
C3_StopStickyOriginal ==
  [][ (/\ g_state /= nullptr /\ heap[g_state].shouldStop
       /\ last'.op \notin {"nativeResetContext", "nativeRelease"})
        => (g_state' /= nullptr /\ heap'[g_state'].shouldStop) ]_vars

\* C3 amended: once shouldStop is set, every call other than resetContext,
\* release and a superseding open (nativeInit) leaves the same session in the
\* slot with shouldStop still set.
C3_StopSticky ==
  [][ (/\ g_state /= nullptr /\ heap[g_state].shouldStop
       /\ last'.op \notin {"nativeResetContext", "nativeRelease", "nativeInit"})
        => (g_state' = g_state /\ heap'[g_state'].shouldStop) ]_vars

\* C3 witness: the flag is still set after a generate call and a prompt call
\* have run on the stopped session.
C3_Witness ==
  /\ g_state /= nullptr /\ heap[g_state].shouldStop
  /\ last.op = "nativePrompt" /\ last.ret = "L231"
  /\ prev.op = "nativeGenerate" /\ prev.ret = "L256"

\* C4 as stated: once an open has superseded a session, a call made with the
\* superseded session's handle leaves the session now in the slot untouched.
C4_StaleHandleHarmless ==
  [][ (/\ last'.op \in HandleOps
       /\ last'.handle \in stale
       /\ g_state /= nullptr)
        => UNCHANGED session ]_vars

\* C5 as stated: a generate call on an open session whose shouldStop is false
\* returns a non-null token.
C5_GenerateReturnsToken ==
  [][ (/\ last'.op = "nativeGenerate"
       /\ g_state /= nullptr /\ ~heap[g_state].shouldStop)
        => last'.result /= nullptr ]_vars

\* C6: the handle in the slot is non-null (and refers to a live object) exactly
\* when the phase is Ready, Generating or Stopped.
C6_HandleIffOpenPhase ==
  /\ (g_state /= nullptr) <=> (Phase \in {"Ready", "Generating", "Stopped"})
  /\ g_state /= nullptr => g_state \in allocated

\* C6 witness: an open session on which a stop request has just run (phase
\* Stopped, handle non-null), opened after an earlier session was superseded.
C6_Witness ==
  /\ Phase = "Stopped" /\ g_state /= nullptr
  /\ last.op = "nativeStopGeneration"
  /\ stale /= {}

\* C7: a prompt call made with no session in the slot returns the negative
\* not-initialized result and changes no state.
C7_PromptNotInitialized ==
  [][ (last'.op = "nativePrompt" /\ g_state = nullptr)
        => (/\ last'.result = NotInitialized
            /\ last'.result < 0
            /\ UNCHANGED <<session, dl, stale>>) ]_vars

\* C7 witness: a prompt call after open and release has returned -1.
C7_Witness ==
  /\ last.op = "nativePrompt" /\ last.result = NotInitialized
  /\ prev.op = "nativeRelease" /\ prev.ret = "L333"
  /\ last.prompt = "Hello world"

\* C8 as stated: an open whose model path cannot be opened fails: it returns no
\* handle and leaves no session in the slot.
C8_OpenFailsOnBadPath ==
  (last.op = "nativeInit" /\ last.path \notin OpenablePaths)
    => (last.result = nullptr /\ g_state = nullptr)

\* C10: every open leaves a session in the slot that is Ready: not generating,
\* shouldStop false.
C10_OpenLeavesReady ==
  [][ last'.op = "nativeInit"
        => (/\ g_state' /= nullptr
            /\ last'.result = g_state'
            /\ ~heap'[g_state'].shouldStop
            /\ ~heap'[g_state'].isGenerating
            /\ Phase' = "Ready") ]_vars

\* C10 witness: an open made right after a stop request on a previous session.
C10_Witness ==
  /\ last.op = "nativeInit"
  /\ prev.op = "nativeStopGeneration" /\ prev.ret = "L298"
  /\ Phase = "Ready" /\ stale /= {}

\* C9: a generate call that starts after a stop request has returned, with no
\* reset, open or release beside or after that request, observes the flag: it
\* returns the null sentinel from the shouldStop check of line 254-256, under
\* every interleaving of the two threads.
C9_StopObservedByNextCall ==
  \A t \in Threads :
    (pc[t] = "returned" /\ loc[t].op = "nativeGenerate" /\ loc[t].flag)
      => (loc[t].result = nullptr /\ loc[t].path = "L256")

\* C9 witness: the stop request returned on one thread, and a generate call
\* started after it on the other thread has returned the sentinel.
C9_Witness ==
  \E t \in Threads, u \in Threads :
    /\ t /= u
    /\ pc[t] = "returned" /\ loc[t].op = "nativeGenerate" /\ loc[t].flag
    /\ loc[t].path = "L256"
    /\ pc[u] = "returned" /\ loc[u].op = "nativeStopGeneration" /\ loc[u].path = "L298"
    /\ stopDone

\* C11: a stop request on an open session sets shouldStop on it and changes
\* nothing else; a stop request directly after a stop request changes nothing;
\* with no session it changes nothing and creates none, and an open that
\* follows it starts with shouldStop false.
C11_StopSetsFlagIdempotent ==
  [][ /\ (last'.op = "nativeStopGeneration" /\ g_state /= nullptr)
          => (/\ g_state' = g_state
              /\ heap' = [heap EXCEPT ![g_state].shouldStop = TRUE]
              /\ UNCHANGED <<allocated, doubleFree>>)
      /\ (last'.op = "nativeStopGeneration" /\ g_state = nullptr)
          => (UNCHANGED session /\ allocated' = {})
      /\ (last.op = "nativeStopGeneration" /\ last'.op = "nativeStopGeneration")
          => UNCHANGED session
      /\ (last.op = "nativeStopGeneration" /\ last.ret = "L301"
          /\ last'.op = "nativeInit")
          => ~heap'[g_state'].shouldStop ]_vars

\* C11 witness: two stop requests in a row on an open session, the flag set.
C11_Witness ==
  /\ last.op = "nativeStopGeneration" /\ last.ret = "L298"
  /\ prev.op = "nativeStopGeneration" /\ prev.ret = "L298"
  /\ g_state /= nullptr /\ heap[g_state].shouldStop

\* C12: a reset on an existing session clears shouldStop and leaves the session
\* Ready, whether it was Ready or Stopped; with no session it changes nothing.
C12_ResetClearsStop ==
  [][ /\ (last'.op = "nativeResetContext" /\ g_state /= nullptr)
          => (/\ g_state' = g_state
              /\ heap' = [heap EXCEPT ![g_state].shouldStop = FALSE]
              /\ Phase' = "Ready"
              /\ UNCHANGED <<allocated, doubleFree>>)
      /\ (last'.op = "nativeResetContext" /\ g_state = nullptr)
          => UNCHANGED session ]_vars

\* C12 witness: a reset has run on a session that a stop request had stopped.
C12_Witness ==
  /\ last.op = "nativeResetContext" /\ last.ret = "L318"
  /\ prev.op = "nativeStopGeneration" /\ prev.ret = "L298"
  /\ Phase = "Ready"

\* C13: at most one session state is live, and it is the one in the slot; an
\* open on an occupied slot destroys exactly the previous object, a release
\* destroys exactly the current one, nothing is destroyed twice and nothing
\* stays allocated outside the slot.
C13_AtMostOneLive ==
  [][ /\ allocated' = (IF g_state' = nullptr THEN {} ELSE {g_state'})
      /\ Cardinality(allocated') <= 1
      /\ ~doubleFree'
      /\ (last'.op = "nativeInit" /\ g_state /= nullptr)
          => (g_state \in allocated /\ g_state \notin allocated'
              /\ g_state \in stale')
      /\ (last'.op = "nativeRelease" /\ g_state /= nullptr)
          => (g_state \in allocated /\ allocated' = {} /\ g_state' = nullptr) ]_vars

\* C13 witness: open, a superseding open, then release: the first object was
\* destroyed by the second open, the second by the release, nothing is live.
C13_Witness ==
  /\ last.op = "nativeRelease" /\ last.ret = "L333"
  /\ prev.op = "nativeInit"
  /\ stale /= {}
  /\ allocated = {} /\ g_state = nullptr /\ ~doubleFree

\* C14: a prober call changes no session state in whatever state it is called,
\* and every library handle it loaded is unloaded when it returns, on each of
\* its return paths.
C14_ProbeNoSideEffect ==
  [][ last'.op \in {"nativeCheckVulkan", "nativeCheckOpenCL"}
        => (/\ UNCHANGED session
            /\ UNCHANGED <<stale, lifecycle>>
            /\ dl' = dl
            /\ dl' = 0) ]_vars

\* C14 witness: the OpenCL prober has returned on its vendor path while a
\* stopped session exists.
C14_Witness ==
  /\ last.op = "nativeCheckOpenCL" /\ last.ret = "L140"
  /\ last.result = JNI_TRUE
  /\ g_state /= nullptr /\ heap[g_state].shouldStop
  /\ dl = 0

\* C16: on an open session the token count nativePrompt returns is not
\* negative and not greater than the length of the prompt, and for the prompt
\* "Hello world" it is positive.
C16_TokenCountBounded ==
  (last.op = "nativePrompt" /\ last.ret = "L231")
    => (/\ last.result >= 0
        /\ last.result <= Len(last.prompt)
        /\ (last.prompt = "Hello world" => last.result > 0))

\* C16 witness: nativePrompt has returned 2 for "Hello world" on an open
\* session.
C16_Witness ==
  /\ last.op = "nativePrompt" /\ last.ret = "L231"
  /\ last.prompt = "Hello world" /\ last.result = 2
  /\ g_state /= nullptr

C18_PromptChangesNothing ==
  [][ (last'.op = "nativePrompt" /\ Phase \in {"Ready", "Stopped"})
        => (/\ last'.ret = "L231"
            /\ last'.result >= 0
            /\ Phase' = Phase
            /\ g_state' = g_state
            /\ heap'[g_state].shouldStop = heap[g_state].shouldStop
            /\ ConfigOf(heap'[g_state]) = ConfigOf(heap[g_state])
            /\ UNCHANGED session) ]_vars

\* C18 witness: nativePrompt has been accepted on a stopped session, which is
\* still stopped.
C18_Witness ==
  /\ last.op = "nativePrompt" /\ last.ret = "L231"
  /\ prev.op = "nativeStopGeneration" /\ prev.ret = "L298"
  /\ Phase = "Stopped"

\* C19: the configuration of the session equals the arguments of the
\* nativeInit call that created it, and nativePrompt, nativeGenerate,
\* nativeStopGeneration and nativeResetContext leave the session's identity and
\* configuration as they are.
C19_ConfigImmutable ==
  [][ /\ last'.op = "nativeInit"
          => (g_state' /= nullptr /\ ConfigOf(heap'[g_state']) = last'.cfg)
      /\ (last'.op \in {"nativePrompt", "nativeGenerate", "nativeStopGeneration",
                        "nativeResetContext"} /\ g_state /= nullptr)
          => (/\ g_state' = g_state
              /\ ConfigOf(heap'[g_state']) = ConfigOf(heap[g_state])) ]_vars

\* C19 witness: a session opened with the second configuration still has it
\* after a generate call and a reset.
C19_Witness ==
  /\ last.op = "nativeResetContext" /\ last.ret = "L318"
  /\ prev.op = "nativeGenerate"
  /\ g_state /= nullptr
  /\ ConfigOf(heap[g_state]).kvCacheType = 3
  /\ ConfigOf(heap[g_state]).contextSize = 2048

\* C20: while one thread is in nativeRelease and the other in nativeGenerate,
\* nativeStopGeneration or nativeResetContext, no null slot is dereferenced and
\* no destroyed session state is read or written.
C20_NoUseAfterDestroy ==
  \A t, u \in Threads :
    (/\ loc[t].op = "nativeRelease"
     /\ loc[u].op \in {"nativeGenerate", "nativeStopGeneration",
                       "nativeResetContext"})
      => ~(uaf \/ crashed)

====
